---- MODULE Spec2Model ----
(***************************************************************************)
(* The scs agent supervisor (src/scs/agent/supervisor.py): the request     *)
(* queue, the run() loop, the per-node actions (_do_verify_node,           *)
(* _do_restart_node, _do_stop_node), the restart rate limiter, the broker  *)
(* cool-down and the pause flag.                                           *)
(*                                                                         *)
(* The reconciler is one cooperative fiber: it is suspended only inside    *)
(* queue.get(timeout=1) and inside a broadcast call.  Every step of the    *)
(* model is the code that runs between two such suspension points.  The    *)
(* other fibers (producers, the timer, the operator, the broker callbacks, *)
(* the clock) act while the reconciler is suspended.                       *)
(***************************************************************************)
EXTENDS Integers, Sequences, FiniteSets, TLC

VARIABLES
    queue,                \* self.queue: the requests put and not yet got
    accepted,             \* number of requests _request has put (their ids are 1..accepted)
    sent,                 \* ids in the order event.send(True) was called
    should_stop,          \* gThread.should_stop
    paused,               \* Supervisor.paused
    pc,                   \* position of run(): "while", "get", "for", "call", "exited"
    cur,                  \* the request run() got last
    idx,                  \* position of "for node in nodes"
    apc,                  \* the broadcast call the action is suspended in
    ncalls,               \* ping attempts made by _verify_restart_node
    is_alive,             \* is_alive of _verify_restart_node
    todo,                 \* queue commands _verify_node_queues has still to issue
    cmds,                 \* trace of the current action invocation
    inflight,             \* action invocations entered and not yet left
    buckets,              \* self._buckets: node -> token bucket
    now,                  \* time.time(), in seconds
    broker_last_revived,  \* state.broker_last_revived
    broker_down,          \* the connection is lost and the pending call is retrying
    enabled,              \* Node.is_enabled
    pk,                   \* Node.pk is set
    declared,             \* Node.queues
    direct,               \* Node.direct_queue
    consuming,            \* the queues the worker consumes from
    rl_hist,              \* times of the restarts issued with ratelimit=True, per node
    rl_epoch,             \* Len(rl_hist[n]) when the bucket of n was last evicted
    settled,              \* the node applied a complete queue reconciliation
    deferred,             \* per node: the last _do_restart_node was "deferred", or was
                          \* "attempted" with ratelimit=True right after a deferred one
    last_update,          \* self._last_update: the request of the last verify-all
    periodic,             \* the requests _verify_all has enqueued
    maxsize,              \* self.queue.maxsize
    raised,               \* calls of a producer that ended in Full
    current               \* the reply of node.stats() _verify_node_processes acts on

vars == <<queue, accepted, sent, should_stop, paused, pc, cur, idx, apc, ncalls,
          is_alive,
          todo, cmds, inflight, buckets, now, broker_last_revived, broker_down,
          enabled, pk, declared, direct, consuming, rl_hist, rl_epoch, settled,
          deferred,
          last_update, periodic, maxsize, raised, current>>

-----------------------------------------------------------------------------
(* Bounds of the model.                                                    *)

MaxRequests == 2
MaxTimedRequests == 5
MaxTime == 120
MaxCalls == 3
MaxCoolRequests == 4
QueueSize == 1

Nodes == {"n1", "n2"}
Queues == {"q1", "q2", "d"}
NoRequest == [id |-> 0, nodes |-> <<>>, action |-> "none", ratelimit |-> FALSE]

NodeLists == {<<"n1">>, <<"n2", "n1">>}

-----------------------------------------------------------------------------
(* Program constants.                                                      *)

\* wait_after_broker_revived = 35.0
wait_after_broker_revived == 35
\* restart_max_rate = "1/m": rate("1/m") is one token per 60 seconds
restart_period == 60
\* TokenBucket(fill_rate) is built with the default capacity=1
bucket_capacity == 1
\* fxrangemax(0.1, 1, 0.4, 30), in tenths of a second
ping_start == 1
ping_stop == 10
ping_step == 4
ping_max == 300
\* the declared concurrency of the nodes of the model
max_concurrency == 10
min_concurrency == 2

-----------------------------------------------------------------------------
(* Values and pure helpers.                                                *)

Min(a, b) == IF a < b THEN a ELSE b

Last(s) == s[Len(s)]

\* The elements of a sequence.
Range(s) == {s[i] : i \in DOMAIN s}

\* How many times x occurs in the sequence s.
Count(s, x) == Cardinality({i \in DOMAIN s : s[i] = x})

\* An optional instant: <<>> is Python's None, <<t>> the instant t.
Never == <<>>
At(t) == <<t>>

\* dict.pop(key, None) and dict[key] = value on a function used as a dict.
Pop(d, k) == [x \in (DOMAIN d) \ {k} |-> d[x]]
Put(d, k, v) == [x \in (DOMAIN d) \cup {k} |-> IF x = k THEN v ELSE d[x]]

\* kombu.utils.fxrangemax(start, stop, step, max): the timeouts it yields.
RECURSIVE fxrange(_, _, _, _, _)
fxrange(c, sum, stop, step, max) ==
    IF sum >= max THEN <<>>
    ELSE LET nxt == Min(c + step, stop)
         IN <<c>> \o fxrange(nxt, sum + nxt, stop, step, max)

fxrangemax(start, stop, step, max) == fxrange(start, 0, stop, step, max)

\* for i in fxrangemax(0.1, 1, 0.4, 30)
ping_timeouts == fxrangemax(ping_start, ping_stop, ping_step, ping_max)

-----------------------------------------------------------------------------
(* celery.datastructures.TokenBucket, with tokens counted in units of      *)
(* 1/restart_period of a token so that the fill rate is one unit a second. *)

one_token == restart_period

TokenBucket(t) == [tokens |-> bucket_capacity * one_token, timestamp |-> t]

\* TokenBucket._get_tokens: refill only when below capacity.
get_tokens(b, t) ==
    IF b.tokens < bucket_capacity * one_token
    THEN [tokens |-> Min(bucket_capacity * one_token, b.tokens + (t - b.timestamp)),
          timestamp |-> t]
    ELSE b

\* A bucket that never runs dry.
can_consume_always(b, t) == TRUE

\* TokenBucket.can_consume(1): the verdict, and the bucket it leaves.
can_consume(b, t) == one_token <= get_tokens(b, t).tokens

after_consume(b, t) ==
    LET g == get_tokens(b, t)
    IN IF one_token <= g.tokens THEN [g EXCEPT !.tokens = @ - one_token] ELSE g

\* self._buckets[node.restart] on the defaultdict.
bucket_of(bs, n, t) == IF n \in DOMAIN bs THEN bs[n] ELSE TokenBucket(t)

-----------------------------------------------------------------------------
(* Supervisor._can_restart and the decision of _do_restart_node.           *)

\* A cool-down that ends one instant early.
can_restart_inclusive(last_revived, t) ==
    IF last_revived = Never THEN TRUE
    ELSE t - last_revived[1] >= wait_after_broker_revived

can_restart(last_revived, t) ==
    IF last_revived = Never THEN TRUE
    ELSE t - last_revived[1] > wait_after_broker_revived

\* A decision that holds every caller to the rate limit.
restart_decision_strict(ratelimit, may_restart, token) ==
    IF may_restart
    THEN IF token THEN "restart" ELSE "disable"
    ELSE "defer"

\* A decision that does not wait for the broker.
restart_decision_nogate(ratelimit, may_restart, token) ==
    IF ratelimit
    THEN IF token THEN "restart" ELSE "disable"
    ELSE "restart"

\* What _do_restart_node does: "restart", "disable" or "defer".
restart_decision(ratelimit, may_restart, token) ==
    IF ratelimit
    THEN IF may_restart
         THEN IF token THEN "restart" ELSE "disable"
         ELSE "defer"
    ELSE "restart"

\* A registry that keeps the bucket of a node it disables.
buckets_after_keep(bs, n, ratelimit, may_restart, t) ==
    LET b == bucket_of(bs, n, t)
    IN IF ratelimit
       THEN IF may_restart THEN Put(bs, n, after_consume(b, t)) ELSE Put(bs, n, b)
       ELSE Pop(bs, n)

\* A registry whose deferred restart takes the token all the same.
buckets_after_defer_consumes(bs, n, ratelimit, may_restart, t) ==
    LET b == bucket_of(bs, n, t)
    IN IF ratelimit THEN Put(bs, n, after_consume(b, t)) ELSE Pop(bs, n)

\* self._buckets after _do_restart_node(node, ratelimit) at time t.
buckets_after(bs, n, ratelimit, may_restart, t) ==
    LET b == bucket_of(bs, n, t)
    IN IF ratelimit
       THEN IF may_restart
            THEN IF can_consume(b, t) THEN Put(bs, n, after_consume(b, t))
                 ELSE Pop(bs, n)
            ELSE Put(bs, n, b)
       ELSE Pop(bs, n)

-----------------------------------------------------------------------------
(* Supervisor._verify_node_queues and _verify_node_processes.              *)

\* A difference that forgets what both sets share.
SymDiff_union(a, b) == a \cup b

\* consuming_from ^ queues
SymDiff(a, b) == (a \ b) \cup (b \ a)

\* A loop body that tests the wrong set for membership.
queue_command_inverted(q, queues, direct_queue) ==
    IF q \notin queues THEN "add_queue"
    ELSE IF q = direct_queue THEN "pass"
    ELSE "cancel_queue"

\* A loop body without the elif for the direct queue.
queue_command_nodirect(q, queues, direct_queue) ==
    IF q \in queues THEN "add_queue" ELSE "cancel_queue"

\* The branch of the loop body taken for one queue of the difference.
queue_command(q, queues, direct_queue) ==
    IF q \in queues THEN "add_queue"
    ELSE IF q = direct_queue THEN "pass"
    ELSE "cancel_queue"

\* The commands the loop issues for a reply, as <<command, queue>> pairs.
queue_commands(queues, reply, direct_queue) ==
    {<<queue_command(q, queues, direct_queue), q>> : q \in SymDiff(reply, queues)}
        \ {<<"pass", direct_queue>>}

\* The node applies one add_queue or cancel_queue command.
apply_command(obs, c) ==
    IF c[1] = "add_queue" THEN obs \cup {c[2]}
    ELSE IF c[1] = "cancel_queue" THEN obs \ {c[2]}
    ELSE obs

\* The replies to stats(): no reply, a map without "autoscaler", a map with it.
StatsReplies ==
    {[kind |-> "none", max |-> 0, min |-> 0],
     [kind |-> "nokey", max |-> 0, min |-> 0]}
    \cup {[kind |-> "autoscaler", max |-> mx, min |-> mn] :
            mx \in {max_concurrency, max_concurrency - 2},
            mn \in {min_concurrency, min_concurrency + 1}}

\* A comparison that wants both settings off.
needs_autoscale_both(s, max, min) ==
    s.kind = "autoscaler" /\ (max # s.max /\ min # s.min)

\* if max != current["max"] or min != current["min"], after the try/except
needs_autoscale(s, max, min) ==
    s.kind = "autoscaler" /\ (max # s.max \/ min # s.min)

-----------------------------------------------------------------------------
(* The producers: Supervisor.verify, restart, shutdown and _request.       *)

nodevars == <<enabled, pk, declared, direct, consuming>>
histvars == <<rl_hist, rl_epoch, settled, deferred>>
loopvars == <<pc, cur, idx, apc, ncalls, is_alive, todo, cmds, inflight>>
timevars == <<now, broker_last_revived, broker_down>>
reqvars == <<last_update, periodic, maxsize, raised>>

\* No reply of node.stats() is at hand.
NoStats == [kind |-> "unread", max |-> 0, min |-> 0]

\* LightQueue() has maxsize None, written 0 here: the queue is never full.
Unbounded == 0

\* A queue that always has room.
full_never(q, size) == FALSE

\* LightQueue.put(item, block=False) finds no free slot and raises Full.
full(q, size) == size # Unbounded /\ Len(q) >= size

\* self._last_update of a supervisor that has not run _verify_all yet (None).
NoEvent == 0

\* _request: event = Event(); self.queue.put_nowait((nodes, event, action, kwargs))
\* and, when _verify_all is the caller, self._last_update = the event returned.
\* `bound` bounds the calls of producers in a behaviour of the model.
request_from(nodes, action, ratelimit, bound, from_verify_all) ==
    /\ accepted + raised < bound
    /\ IF full(queue, maxsize)
       THEN /\ raised' = raised + 1
            /\ UNCHANGED <<queue, accepted, last_update, periodic>>
       ELSE /\ accepted' = accepted + 1
            /\ queue' = Append(queue, [id |-> accepted + 1, nodes |-> nodes,
                                       action |-> action, ratelimit |-> ratelimit])
            /\ last_update' = IF from_verify_all THEN accepted + 1 ELSE last_update
            /\ periodic' = IF from_verify_all THEN periodic \cup {accepted + 1}
                           ELSE periodic
            /\ UNCHANGED raised
    /\ UNCHANGED <<sent, should_stop, paused, buckets, maxsize, current>>
    /\ UNCHANGED <<loopvars, timevars, nodevars, histvars>>

request(nodes, action, ratelimit, bound) ==
    request_from(nodes, action, ratelimit, bound, FALSE)

\* `limit` bounds the number of requests a behaviour of the model accepts.
verify(nodes, ratelimit, limit) == request(nodes, "verify", ratelimit, limit)

restart(nodes, limit) == request(nodes, "restart", FALSE, limit)

shutdown(nodes, limit) == request(nodes, "stop", FALSE, limit)

\* An event that always counts as sent.
ready_always(ev) == TRUE

\* Event.ready(): the completion has been sent.
ready(ev) == ev \in Range(sent)

\* Node.objects.all()
AllNodes == <<"n2", "n1">>

\* if not self._last_update or force, with force set when the last event is ready
verify_all_due == last_update = NoEvent \/ ready(last_update)

\* _verify_all(), as the periodic timer started by before() calls it
verify_all(limit) ==
    /\ verify_all_due
    /\ request_from(AllNodes, "verify", TRUE, limit, TRUE)

-----------------------------------------------------------------------------
(* Supervisor.pause, Supervisor.resume, the stop flag, the broker.         *)

ctl_frame ==
    /\ UNCHANGED <<queue, accepted, sent, buckets, current>>
    /\ UNCHANGED reqvars
    /\ UNCHANGED <<loopvars, nodevars, histvars>>

pause ==
    /\ ~paused
    /\ paused' = TRUE
    /\ UNCHANGED <<should_stop, timevars>>
    /\ ctl_frame

resume ==
    /\ paused
    /\ paused' = FALSE
    /\ UNCHANGED <<should_stop, timevars>>
    /\ ctl_frame

\* gThread.stop sets the flag run() tests.
stop ==
    /\ ~should_stop
    /\ should_stop' = TRUE
    /\ UNCHANGED <<paused, timevars>>
    /\ ctl_frame

\* The calls made through insured(): a connection error calls errback.
InsuredCalls == {"alive", "alive_off", "ping", "stats", "autoscale",
                 "consuming", "queue_cmd"}

\* An errback that leaves the supervisor running.
errback_no_pause ==
    /\ pc = "call"
    /\ apc \in InsuredCalls
    /\ ~broker_down
    /\ broker_down' = TRUE
    /\ UNCHANGED <<should_stop, paused, now, broker_last_revived>>
    /\ ctl_frame

\* insured.errback: supervisor.pause(), and the call is retried.
errback ==
    /\ pc = "call"
    /\ apc \in InsuredCalls
    /\ ~broker_down
    /\ broker_down' = TRUE
    /\ paused' = TRUE
    /\ UNCHANGED <<should_stop, now, broker_last_revived>>
    /\ ctl_frame

\* state.on_broker_revive: records the instant and resumes the supervisor.
on_broker_revive ==
    /\ broker_down
    /\ broker_down' = FALSE
    /\ broker_last_revived' = At(now)
    /\ paused' = FALSE
    /\ UNCHANGED <<should_stop, now>>
    /\ ctl_frame

-----------------------------------------------------------------------------
(* Supervisor.run.                                                         *)

loop_base ==
    /\ UNCHANGED <<accepted, should_stop, paused>>
    /\ UNCHANGED reqvars
    /\ UNCHANGED timevars

\* The frame of a step that keeps the stats reply, and of one that drops it.
loop_frame == loop_base /\ UNCHANGED current

loop_frame_done == loop_base /\ current' = NoStats

\* while not self.should_stop
while_test ==
    /\ pc = "while"
    /\ pc' = IF should_stop THEN "exited" ELSE "get"
    /\ UNCHANGED <<queue, sent, buckets, cur, idx, apc, ncalls, is_alive, todo, cmds, inflight>>
    /\ UNCHANGED <<nodevars, histvars>>
    /\ loop_frame

\* (mutant) queue.get returns the newest request
queue_get_lifo ==
    /\ pc = "get"
    /\ queue # <<>>
    /\ cur' = Last(queue)
    /\ queue' = SubSeq(queue, 1, Len(queue) - 1)
    /\ idx' = 1
    /\ pc' = "for"
    /\ UNCHANGED <<sent, buckets, apc, ncalls, is_alive, todo, cmds, inflight>>
    /\ UNCHANGED <<nodevars, histvars>>
    /\ loop_frame

\* queue.get(timeout=1) returns the oldest request
queue_get ==
    /\ pc = "get"
    /\ queue # <<>>
    /\ cur' = Head(queue)
    /\ queue' = Tail(queue)
    /\ idx' = 1
    /\ pc' = "for"
    /\ UNCHANGED <<sent, buckets, apc, ncalls, is_alive, todo, cmds, inflight>>
    /\ UNCHANGED <<nodevars, histvars>>
    /\ loop_frame

\* queue.get(timeout=1) raises Empty: respond_to_ping(); continue
queue_empty ==
    /\ pc = "get"
    /\ queue = <<>>
    /\ pc' = "while"
    /\ UNCHANGED <<queue, sent, buckets, cur, idx, apc, ncalls, is_alive, todo, cmds, inflight>>
    /\ UNCHANGED <<nodevars, histvars>>
    /\ loop_frame

\* finally: event.send(True)
send_event ==
    /\ pc = "for"
    /\ idx > Len(cur.nodes)
    /\ sent' = Append(sent, cur.id)
    /\ pc' = "while"
    /\ UNCHANGED <<queue, buckets, cur, idx, apc, ncalls, is_alive, todo, cmds, inflight>>
    /\ UNCHANGED <<nodevars, histvars>>
    /\ loop_frame

\* (mutant) the for loop walks the nodes from the last to the first
node_at_reversed(nodes, i) == nodes[Len(nodes) + 1 - i]

\* The node the for loop hands to the action.
node_at(nodes, i) == nodes[i]

\* action(node, **kwargs) is entered: it is suspended in its first call.
enter(call, trace) ==
    /\ pc' = "call"
    /\ apc' = call
    /\ cmds' = trace
    /\ inflight' = inflight \cup {<<cur.id, idx, node_at(cur.nodes, idx)>>}
    /\ UNCHANGED <<cur, idx>>

\* action(node, **kwargs) is left: the for loop goes to the next node.
leave_with(trace) ==
    /\ pc' = "for"
    /\ idx' = idx + 1
    /\ apc' = "none"
    /\ cmds' = trace
    /\ inflight' = inflight \ {<<cur.id, idx, node_at(cur.nodes, idx)>>}
    /\ UNCHANGED cur

\* action(node, **kwargs) returns
leave == leave_with(<<>>)

\* The action goes on to its next call.
goto(call, trace) ==
    /\ pc' = "call"
    /\ apc' = call
    /\ cmds' = trace
    /\ UNCHANGED <<cur, idx, inflight>>

\* (mutant) the exception leaves run()'s for loop and the event is not sent
action_raises_abort ==
    /\ pc = "call"
    /\ ~broker_down
    /\ pc' = "while"
    /\ apc' = "none"
    /\ cmds' = <<>>
    /\ inflight' = {}
    /\ UNCHANGED <<cur, idx>>
    /\ UNCHANGED <<queue, sent, buckets, ncalls, is_alive, todo>>
    /\ UNCHANGED <<nodevars, histvars>>
    /\ loop_frame_done

\* An except clause that gives up the rest of the nodes.
action_raises_skip ==
    /\ pc = "call"
    /\ ~broker_down
    /\ pc' = "for"
    /\ idx' = Len(cur.nodes) + 1
    /\ apc' = "none"
    /\ cmds' = <<<<"raise", <<>>>>>>
    /\ inflight' = {}
    /\ UNCHANGED cur
    /\ UNCHANGED <<queue, sent, buckets, ncalls, is_alive, todo>>
    /\ UNCHANGED <<nodevars, histvars>>
    /\ loop_frame_done

\* except Exception, exc: self.error(...), for a call that raises
action_raises ==
    /\ pc = "call"
    /\ ~broker_down
    /\ leave_with(<<<<"raise", <<>>>>>>)
    /\ UNCHANGED <<queue, sent, buckets, ncalls, is_alive, todo>>
    /\ UNCHANGED <<nodevars, histvars>>
    /\ loop_frame_done

-----------------------------------------------------------------------------
(* The actions: _do_verify_node, _do_restart_node, _do_stop_node and the   *)
(* steps they are made of.  The trace of the invocation in progress holds  *)
(* <<name, arguments>> entries: the broadcast calls issued (the pings are  *)
(* counted in ncalls instead), node.disable(), and the entry into          *)
(* _do_restart_node.  It is cleared when the action returns; a verify that *)
(* returns at once because the supervisor is paused leaves <<"paused">>,   *)
(* an action that raised leaves <<"raise">>, a verify of a disabled or     *)
(* unsaved node that is not alive leaves <<"not_alive">>.                  *)

call(name) == <<name, <<>>>>

the_node == node_at(cur.nodes, idx)

\* (mutant) _do_verify_node does not test self.paused
verify_never_noop(p) == FALSE

\* if not self.paused, as _do_verify_node tests it
verify_is_noop(p) == p

\* _do_verify_node up to ib(node.alive)
do_verify_node ==
    /\ pc = "for"
    /\ idx <= Len(cur.nodes)
    /\ cur.action = "verify"
    /\ IF verify_is_noop(paused)
       THEN /\ pc' = "for"
            /\ idx' = idx + 1
            /\ cmds' = <<call("paused")>>
            /\ UNCHANGED <<cur, apc, inflight>>
       ELSE IF enabled[the_node] /\ pk[the_node]
            THEN enter("alive", <<call("alive")>>)
            ELSE enter("alive_off", <<call("alive")>>)
    /\ UNCHANGED <<queue, sent, buckets, ncalls, is_alive, todo>>
    /\ UNCHANGED <<nodevars, histvars>>
    /\ loop_frame

\* _do_restart_node(node, ratelimit) up to the first suspension, entered with
\* the trace so far; `begin` is enter or goto.
restart_node(ratelimit, trace, in_verify) ==
    LET may == can_restart(broker_last_revived, now)
        token == can_consume(bucket_of(buckets, the_node, now), now)
        what == restart_decision(ratelimit, may, token)
        tr == Append(trace, call("restart_node"))
        evicted == [rl_epoch EXCEPT ![the_node] = Len(rl_hist[the_node])]
    IN /\ buckets' = buckets_after(buckets, the_node, ratelimit, may, now)
       /\ ncalls' = 0
       /\ is_alive' = FALSE
       /\ deferred' = [deferred EXCEPT ![the_node] =
                           IF what = "defer" THEN "deferred"
                           ELSE IF ratelimit /\ @ = "deferred" THEN "attempted"
                           ELSE "no"]
       /\ CASE what = "restart" ->
                 /\ IF in_verify
                    THEN goto("restart", Append(tr, call("restart")))
                    ELSE enter("restart", Append(tr, call("restart")))
                 /\ rl_hist' = IF ratelimit
                               THEN [rl_hist EXCEPT ![the_node] = Append(@, now)]
                               ELSE rl_hist
                 /\ rl_epoch' = IF ratelimit THEN rl_epoch ELSE evicted
                 /\ UNCHANGED enabled
            [] what = "disable" ->
                 /\ goto("stats", tr \o <<call("disable"), call("stats")>>)
                 /\ enabled' = [enabled EXCEPT ![the_node] = FALSE]
                 /\ rl_epoch' = evicted
                 /\ UNCHANGED rl_hist
            [] what = "defer" ->
                 /\ goto("stats", Append(tr, call("stats")))
                 /\ UNCHANGED <<enabled, rl_hist, rl_epoch>>

\* ib(node.alive) returns for an enabled node
alive_reply ==
    /\ pc = "call"
    /\ apc = "alive"
    /\ ~broker_down
    /\ \E r \in BOOLEAN :
         IF r
         THEN /\ goto("stats", Append(cmds, call("stats")))
              /\ UNCHANGED <<buckets, ncalls, is_alive, enabled, rl_hist, rl_epoch, deferred>>
         ELSE restart_node(cur.ratelimit, cmds, TRUE)
    /\ UNCHANGED <<queue, sent, todo, pk, declared, direct, consuming, settled>>
    /\ loop_frame

\* An else branch that stops the node whatever ib(node.alive) answers.
alive_off_reply_always ==
    /\ pc = "call"
    /\ apc = "alive_off"
    /\ ~broker_down
    /\ \E r \in BOOLEAN :
         IF r
         THEN goto("stop", Append(cmds, call("stop")))
         ELSE goto("stop", <<call("not_alive"), call("stop")>>)
    /\ UNCHANGED <<queue, sent, buckets, ncalls, is_alive, todo>>
    /\ UNCHANGED <<nodevars, histvars>>
    /\ loop_frame

\* ib(node.alive) returns for a disabled or unsaved node
alive_off_reply ==
    /\ pc = "call"
    /\ apc = "alive_off"
    /\ ~broker_down
    /\ \E r \in BOOLEAN :
         IF r
         THEN goto("stop", Append(cmds, call("stop")))
         ELSE leave_with(<<call("not_alive")>>)
    /\ UNCHANGED <<queue, sent, buckets, ncalls, is_alive, todo>>
    /\ UNCHANGED <<nodevars, histvars>>
    /\ loop_frame

\* _do_restart_node as the action of a restart request
do_restart_node ==
    /\ pc = "for"
    /\ idx <= Len(cur.nodes)
    /\ cur.action = "restart"
    /\ restart_node(cur.ratelimit, <<>>, FALSE)
    /\ UNCHANGED <<queue, sent, todo, pk, declared, direct, consuming, settled>>
    /\ loop_frame

\* A _do_stop_node that returns at once while the supervisor is paused.
do_stop_node_paused ==
    /\ pc = "for"
    /\ idx <= Len(cur.nodes)
    /\ cur.action = "stop"
    /\ IF paused
       THEN /\ pc' = "for"
            /\ idx' = idx + 1
            /\ cmds' = <<call("paused")>>
            /\ UNCHANGED <<cur, apc, inflight>>
       ELSE enter("stop", <<call("stop")>>)
    /\ UNCHANGED <<queue, sent, buckets, ncalls, is_alive, todo>>
    /\ UNCHANGED <<nodevars, histvars>>
    /\ loop_frame

\* _do_stop_node as the action of a shutdown request
do_stop_node ==
    /\ pc = "for"
    /\ idx <= Len(cur.nodes)
    /\ cur.action = "stop"
    /\ enter("stop", <<call("stop")>>)
    /\ UNCHANGED <<queue, sent, buckets, ncalls, is_alive, todo>>
    /\ UNCHANGED <<nodevars, histvars>>
    /\ loop_frame

\* blocking(node.stop) returns
stop_reply ==
    /\ pc = "call"
    /\ apc = "stop"
    /\ leave
    /\ UNCHANGED <<queue, sent, buckets, ncalls, is_alive, todo>>
    /\ UNCHANGED <<nodevars, histvars>>
    /\ loop_frame

\* blocking(node.restart) returns: the first ping of _verify_restart_node
restart_reply ==
    /\ pc = "call"
    /\ apc = "restart"
    /\ is_alive' = FALSE
    /\ IF ping_timeouts # <<>>
       THEN /\ goto("ping", cmds)
            /\ ncalls' = 1
       ELSE /\ ncalls' = 0
            /\ IF cur.action = "restart"
               THEN leave
               ELSE goto("stats", Append(cmds, call("stats")))
    /\ UNCHANGED <<queue, sent, buckets, todo>>
    /\ UNCHANGED <<nodevars, histvars>>
    /\ loop_frame

\* A loop without the break.
ping_again_nobreak(r, n) == n < Len(ping_timeouts)

\* The for loop of _verify_restart_node goes on after the n-th ping answered
\* r: a true reply breaks, and the timeouts run out.
ping_again(r, n) == ~r /\ n < Len(ping_timeouts)

\* insured(node, node.responds_to_ping, timeout=i) returns; is_alive is read
\* for the log line after the loop and is gone when the function returns.
ping_reply ==
    /\ pc = "call"
    /\ apc = "ping"
    /\ ~broker_down
    /\ \E r \in BOOLEAN :
         IF ping_again(r, ncalls)
         THEN /\ goto("ping", cmds)
              /\ ncalls' = ncalls + 1
              /\ is_alive' = (is_alive \/ r)
         ELSE /\ ncalls' = 0
              /\ is_alive' = FALSE
              /\ IF cur.action = "restart"
                 THEN leave
                 ELSE goto("stats", Append(cmds, call("stats")))
    /\ UNCHANGED <<queue, sent, buckets, todo>>
    /\ UNCHANGED <<nodevars, histvars>>
    /\ loop_frame

\* insured(node, node.stats) returns, in _verify_node_processes
stats_reply ==
    /\ pc = "call"
    /\ apc = "stats"
    /\ ~broker_down
    /\ \E s \in StatsReplies :
         /\ current' = s
         /\ IF needs_autoscale(s, max_concurrency, min_concurrency)
            THEN goto("autoscale",
                      Append(cmds, <<"autoscale",
                                     <<max_concurrency, min_concurrency>>>>))
            ELSE goto("consuming", Append(cmds, call("consuming_from")))
    /\ UNCHANGED <<queue, sent, buckets, ncalls, is_alive, todo>>
    /\ UNCHANGED <<nodevars, histvars>>
    /\ loop_base

\* ib(node.autoscale, max, min) returns
autoscale_reply ==
    /\ pc = "call"
    /\ apc = "autoscale"
    /\ ~broker_down
    /\ goto("consuming", Append(cmds, call("consuming_from")))
    /\ UNCHANGED <<queue, sent, buckets, ncalls, is_alive, todo>>
    /\ UNCHANGED <<nodevars, histvars>>
    /\ loop_frame_done

\* The for loop of _verify_node_queues over what is left of the difference:
\* the next command is issued, or the action returns.
queue_loop(left, trace) ==
    IF left = {}
    THEN /\ leave
         /\ todo' = {}
         /\ settled' = [settled EXCEPT ![the_node] = TRUE]
    ELSE /\ \E c \in left :
              /\ goto("queue_cmd", Append(trace, <<c[1], <<c[2]>>>>))
              /\ todo' = left \ {c}
         /\ UNCHANGED settled

\* ib(node.consuming_from) returns, in _verify_node_queues
consuming_reply ==
    /\ pc = "call"
    /\ apc = "consuming"
    /\ ~broker_down
    /\ \/ /\ leave
          /\ UNCHANGED <<todo, settled>>
       \/ queue_loop(queue_commands(declared[the_node], consuming[the_node],
                                    direct[the_node]), cmds)
    /\ UNCHANGED <<queue, sent, buckets, ncalls, is_alive, rl_hist, rl_epoch, deferred>>
    /\ UNCHANGED nodevars
    /\ loop_frame_done

\* ib(node.add_queue, queue) or ib(node.cancel_queue, queue) returns
queue_cmd_reply ==
    /\ pc = "call"
    /\ apc = "queue_cmd"
    /\ ~broker_down
    /\ consuming' = [consuming EXCEPT ![the_node] =
                        apply_command(@, <<Last(cmds)[1], Last(cmds)[2][1]>>)]
    /\ queue_loop(todo, cmds)
    /\ UNCHANGED <<queue, sent, buckets, ncalls, is_alive, rl_hist, rl_epoch, deferred>>
    /\ UNCHANGED <<enabled, pk, declared, direct>>
    /\ loop_frame

-----------------------------------------------------------------------------
(* The supervisor after __init__ and before(), with run() about to start.  *)

NoBuckets == [n \in {} |-> TokenBucket(0)]

InitSupervisor ==
    /\ queue = <<>>
    /\ accepted = 0
    /\ sent = <<>>
    /\ should_stop = FALSE
    /\ paused = FALSE
    /\ pc = "while"
    /\ cur = NoRequest
    /\ idx = 1
    /\ apc = "none"
    /\ ncalls = 0
    /\ is_alive = FALSE
    /\ todo = {}
    /\ cmds = <<>>
    /\ inflight = {}
    /\ buckets = NoBuckets
    /\ now = 0
    /\ broker_last_revived = Never
    /\ broker_down = FALSE
    /\ rl_hist = [n \in Nodes |-> <<>>]
    /\ rl_epoch = [n \in Nodes |-> 0]
    /\ deferred = [n \in Nodes |-> "no"]
    /\ settled = [n \in Nodes |-> FALSE]
    /\ last_update = NoEvent
    /\ periodic = {}
    /\ raised = 0
    /\ current = NoStats

\* Two nodes of the model store: n1 enabled, n2 disabled; n1's worker consumes
\* from an extra queue and lacks a declared one.
Init ==
    /\ InitSupervisor
    /\ maxsize = Unbounded
    /\ enabled = [n \in Nodes |-> n = "n1"]
    /\ pk = [n \in Nodes |-> TRUE]
    /\ declared = [n \in Nodes |-> {"q1"}]
    /\ direct = [n \in Nodes |-> "d"]
    /\ consuming = [n \in Nodes |-> IF n = "n1" THEN {"q2", "d"} ELSE {"q1"}]

Reconciler ==
    \/ while_test
    \/ queue_get
    \/ queue_empty
    \/ send_event
    \/ do_verify_node
    \/ do_restart_node
    \/ do_stop_node
    \/ alive_reply
    \/ alive_off_reply
    \/ restart_reply
    \/ ping_reply
    \/ stats_reply
    \/ autoscale_reply
    \/ consuming_reply
    \/ queue_cmd_reply
    \/ stop_reply
    \/ action_raises

Producers ==
    \/ \E nodes \in NodeLists, ratelimit \in BOOLEAN :
            verify(nodes, ratelimit, MaxRequests)
    \/ \E nodes \in NodeLists : restart(nodes, MaxRequests)
    \/ \E nodes \in NodeLists : shutdown(nodes, MaxRequests)

Next == Reconciler \/ Producers \/ pause \/ resume \/ stop

Spec == Init /\ [][Next]_vars

\* The same supervisor with fewer kinds of requests, for the claims about what
\* eventually happens.
FairProducers ==
    \/ \E nodes \in NodeLists : verify(nodes, TRUE, MaxRequests)
    \/ restart(<<"n1">>, MaxRequests)
    \/ shutdown(<<"n1">>, MaxRequests)

FairNext == Reconciler \/ FairProducers \/ pause \/ resume \/ stop

\* The reconciler fiber keeps being scheduled and every call it makes ends.
FairSpec == Init /\ [][FairNext]_vars /\ WF_vars(Reconciler)

-----------------------------------------------------------------------------
(* The supervisor while the broker connection is lost and revived: the     *)
(* connection comes back after every loss, and a call that is retried      *)
(* often enough gets its reply.                                            *)

ReviveProducers ==
    \/ \E nodes \in NodeLists : verify(nodes, TRUE, MaxRequests)
    \/ restart(<<"n1">>, MaxRequests)
    \/ shutdown(<<"n1">>, MaxRequests)

ReviveNext == Reconciler \/ ReviveProducers \/ errback \/ on_broker_revive

ReviveSpec ==
    /\ Init
    /\ [][ReviveNext]_vars
    /\ SF_vars(Reconciler)
    /\ WF_vars(on_broker_revive)

-----------------------------------------------------------------------------
(* The supervisor of nodes that are enabled or disabled, saved or unsaved. *)

NodeProducers ==
    \/ \E nodes \in NodeLists : verify(nodes, TRUE, MaxRequests)
    \/ restart(<<"n1">>, MaxRequests)
    \/ shutdown(<<"n1">>, MaxRequests)

NodeNext == Reconciler \/ NodeProducers \/ pause \/ resume

NodeInit ==
    /\ InitSupervisor
    /\ maxsize = Unbounded
    /\ enabled \in [Nodes -> BOOLEAN]
    /\ pk \in [Nodes -> BOOLEAN]
    /\ declared = [n \in Nodes |-> {"q1"}]
    /\ direct = [n \in Nodes |-> "d"]
    /\ consuming = [n \in Nodes |-> IF n = "n1" THEN {"q2", "d"} ELSE {"q1"}]

NodeSpec == NodeInit /\ [][NodeNext]_vars

-----------------------------------------------------------------------------
(* The supervisor with its periodic timer, on the queue of LightQueue() or  *)
(* on a queue of QueueSize slots passed to __init__.                        *)

TimerProducers ==
    \/ verify_all(MaxCalls)
    \/ verify(<<"n1">>, FALSE, MaxCalls)
    \/ restart(<<"n1">>, MaxCalls)
    \/ shutdown(<<"n1">>, MaxCalls)

TimerNext == Reconciler \/ TimerProducers \/ stop

TimerInit ==
    /\ InitSupervisor
    /\ maxsize \in {Unbounded, QueueSize}
    /\ enabled = [n \in Nodes |-> n = "n1"]
    /\ pk = [n \in Nodes |-> TRUE]
    /\ declared = [n \in Nodes |-> {"q1"}]
    /\ direct = [n \in Nodes |-> "d"]
    /\ consuming = [n \in Nodes |-> IF n = "n1" THEN {"q2", "d"} ELSE {"q1"}]

TimerSpec == TimerInit /\ [][TimerNext]_vars

-----------------------------------------------------------------------------
(* The supervisor of one node over time: the clock advances, the broker    *)
(* connection is lost and revived, the operator enables the node again.    *)

TickSteps == {35, 60}

\* time.time() advances by one of the steps
advance(steps) ==
    /\ \E d \in steps :
         /\ now + d <= MaxTime
         /\ now' = now + d
    /\ UNCHANGED <<should_stop, paused, broker_last_revived, broker_down>>
    /\ ctl_frame

\* time passes
tick == advance(TickSteps)

\* the operator enables a node the supervisor has disabled
enable_node ==
    /\ \E n \in {"n1"} :
         /\ ~enabled[n]
         /\ enabled' = [enabled EXCEPT ![n] = TRUE]
    /\ UNCHANGED <<queue, accepted, sent, should_stop, paused, buckets>>
    /\ UNCHANGED <<pk, declared, direct, consuming>>
    /\ UNCHANGED <<loopvars, timevars, histvars, reqvars, current>>

\* The callers wait for the completion of a request before the next one.
TimedProducers ==
    /\ Len(sent) = accepted
    /\ \/ verify(<<"n1">>, TRUE, MaxTimedRequests)
       \/ restart(<<"n1">>, MaxTimedRequests)
       \/ shutdown(<<"n1">>, MaxTimedRequests)

TimedNext ==
    Reconciler \/ TimedProducers \/ tick \/ errback \/ on_broker_revive \/ enable_node

\* Node n1, whose worker consumes from one queue that is not declared.
TimedInit ==
    /\ InitSupervisor
    /\ maxsize = Unbounded
    /\ enabled = [n \in Nodes |-> n = "n1"]
    /\ pk = [n \in Nodes |-> TRUE]
    /\ declared = [n \in Nodes |-> {"q1"}]
    /\ direct = [n \in Nodes |-> "d"]
    /\ consuming = [n \in Nodes |-> IF n = "n1" THEN {"q1", "q2"} ELSE {"q1"}]

TimedSpec == TimedInit /\ [][TimedNext]_vars

-----------------------------------------------------------------------------
(* The supervisor of node n1 for every declared set, observed set and      *)
(* direct queue of the node.                                               *)

QueueProducers ==
    \/ \E nodes \in NodeLists : verify(nodes, TRUE, MaxRequests)
    \/ restart(<<"n1">>, MaxRequests)
    \/ shutdown(<<"n1">>, MaxRequests)

QueueNext == Reconciler \/ QueueProducers

QueueInit ==
    /\ InitSupervisor
    /\ maxsize = Unbounded
    /\ enabled = [n \in Nodes |-> n = "n1"]
    /\ pk = [n \in Nodes |-> TRUE]
    /\ \E qs \in SUBSET Queues :
          declared = [n \in Nodes |-> IF n = "n1" THEN qs ELSE {"q1"}]
    /\ \E d \in Queues :
          direct = [n \in Nodes |-> IF n = "n1" THEN d ELSE "d"]
    /\ \E obs \in SUBSET Queues :
          consuming = [n \in Nodes |-> IF n = "n1" THEN obs ELSE {"q1"}]

QueueSpec == QueueInit /\ [][QueueNext]_vars

-----------------------------------------------------------------------------
(* The claims.                                                             *)

Ids == 1..(MaxRequests + MaxTimedRequests)

Signalled(id) == id \in Range(sent)

\* C1: every request _request accepted has its completion event sent exactly
\* once, never twice, as long as run() has not left its loop, also when actions
\* of the request raise.
C1_CompletionExactlyOnce ==
    /\ [](\A id \in Ids : Count(sent, id) <= 1)
    /\ \A id \in Ids : (accepted >= id) ~> (Count(sent, id) = 1 \/ pc = "exited")

\* C1 witness: a request whose last action raised has been signalled once.
C1_Witness ==
    /\ pc = "while"
    /\ cmds = <<call("raise")>>
    /\ Len(cur.nodes) = 2
    /\ Count(sent, cur.id) = 1

\* C2: once run() has left its loop, every accepted request has been signalled
\* (the loop ends only with the queue drained).
C2_DrainedBeforeExit ==
    pc = "exited" => \A id \in 1..accepted : Signalled(id)

\* C3: completions are signalled in the order the requests were enqueued:
\* a request is signalled only after every request enqueued before it.
C3_Fifo ==
    /\ \A i, j \in DOMAIN sent : i < j => sent[i] < sent[j]
    /\ \A b \in Range(sent) : \A a \in 1..b : Signalled(a)

\* C3 witness: two requests were queued together and both are signalled.
C3_Witness == accepted >= 2 /\ Len(sent) >= 2 /\ Signalled(2)

\* C4: at most one action invocation is in flight; it is the invocation for
\* node number idx of the request run() got last, whose completion is not yet
\* signalled while every earlier request's is and every later request is still
\* queued; and the for loop goes through the nodes one by one in order.
C4_InFlight ==
    /\ Cardinality(inflight) <= 1
    /\ \A e \in inflight :
         /\ pc = "call"
         /\ idx \in 1..Len(cur.nodes)
         /\ e = <<cur.id, idx, cur.nodes[idx]>>
         /\ ~Signalled(cur.id)
         /\ \A id \in 1..(cur.id - 1) : Signalled(id)
         /\ \A i \in DOMAIN queue : queue[i].id > cur.id

C4_InOrder ==
    \/ idx' = idx
    \/ idx' = idx + 1 /\ cur' = cur /\ pc \in {"for", "call"}
    \/ idx' = 1 /\ pc = "get" /\ inflight = {}

C4_OneActionAtATime == [](C4_InFlight) /\ [][C4_InOrder]_vars

\* C4 witness: the second node of a request is in a call while another request
\* waits in the queue.
C4_Witness ==
    /\ inflight # {}
    /\ idx = 2
    /\ apc = "ping"
    /\ queue # <<>>

\* C10: a verify_node that starts while paused issues no call, leaves the
\* buckets and the nodes as they are and returns to the for loop; the request
\* it belongs to is signalled.
C10_PausedStep ==
    (/\ pc = "for"
     /\ idx <= Len(cur.nodes)
     /\ cur.action = "verify"
     /\ paused
     /\ loopvars' # loopvars)
    => /\ cmds' = <<call("paused")>>
       /\ pc' = "for"
       /\ idx' = idx + 1
       /\ inflight' = {}
       /\ apc' = "none"
       /\ UNCHANGED <<buckets, enabled, pk, declared, direct, consuming, cur, queue>>

C10_PausedVerifyIsNoop ==
    /\ [][C10_PausedStep]_vars
    /\ \A id \in Ids :
         (cmds = <<call("paused")>> /\ cur.id = id) ~> Signalled(id)

\* C10 witness: the request whose last verify was skipped has been signalled.
C10_Witness ==
    /\ cmds = <<call("paused")>>
    /\ Signalled(cur.id)
    /\ buckets = NoBuckets
    /\ ~settled["n1"]

-----------------------------------------------------------------------------
(* Restarts, the cool-down after a broker revival and the token bucket.    *)

Issued(c) == Count(cmds', c) > Count(cmds, c)

\* The broker was never revived, or its last revival is more than the wait ago.
CoolDownOver ==
    \/ broker_last_revived = Never
    \/ now - broker_last_revived[1] > wait_after_broker_revived

\* The bucket of node n holds a whole token at this instant: a node without a
\* bucket gets a full one, a bucket below capacity has gained one unit for
\* every second since it was last read.
HasToken(n) ==
    \/ n \notin DOMAIN buckets
    \/ buckets[n].tokens >= one_token
    \/ buckets[n].tokens + (now - buckets[n].timestamp) >= one_token

\* C5: a restart command is issued to a node only if the call is not
\* rate-limited, or the broker was never revived or was revived more than
\* wait_after_broker_revived ago and the bucket of the node yields a token.
C5_RestartStep ==
    Issued(call("restart")) =>
        \/ ~cur.ratelimit
        \/ CoolDownOver /\ HasToken(the_node)

C5_RestartOnlyIfAllowed == [][C5_RestartStep]_vars

\* A rate-limited restart is running that was issued after a broker revival
\* and its cool-down.
C5_Witness ==
    /\ pc = "call" /\ apc = "restart" /\ cur.ratelimit
    /\ broker_last_revived # Never
    /\ rl_hist["n1"] # <<>>
    /\ Last(rl_hist["n1"]) = now
    /\ now - broker_last_revived[1] > wait_after_broker_revived

\* ceil(a / b) for a >= 0 and b > 0
CeilDiv(a, b) == (a + b - 1) \div b

\* The most rate-limited restarts a window may hold: ceil(W * rate) + 1, with
\* the window of the restarts at instants t1 <= t2 taken as t2 - t1 + 1 seconds
\* (the clock counts whole seconds).
RateBound(t1, t2) == CeilDiv(t2 - t1 + 1, restart_period) + bucket_capacity

\* The bound over the rate-limited restarts from index lo + 1 on.
WithinRate(h, lo) ==
    \A i, j \in DOMAIN h :
        (lo < i /\ i <= j) => (j - i + 1) <= RateBound(h[i], h[j])

\* C6 as stated: whatever the requests were, any window holds at most
\* ceil(W * rate) + 1 rate-limited restarts of a node.
C6_RateBoundAlways == \A n \in Nodes : WithinRate(rl_hist[n], 0)

\* C6: any window holds at most ceil(W * rate) + 1 of the rate-limited restarts
\* of a node that drew on the same bucket, that is with no explicit restart
\* and no disabling of the node between them.
C6_RateBoundPerBucket == \A n \in Nodes : WithinRate(rl_hist[n], rl_epoch[n])

\* Three rate-limited restarts drawn from one bucket, as many as the bound
\* allows for their window.
C6_Witness ==
    LET h == rl_hist["n1"]
    IN /\ Len(h) - rl_epoch["n1"] >= 3
       /\ Len(h) - rl_epoch["n1"] = RateBound(h[rl_epoch["n1"] + 1], Last(h))

\* C7: when _do_restart_node runs rate-limited, after the cool-down, and the
\* bucket denies a token, node.disable() is called exactly once, no restart is
\* issued and the bucket leaves the registry; node.disable() is called in no
\* other circumstance.
C7_DisableStep ==
    /\ Issued(call("disable")) =>
          /\ cur.ratelimit
          /\ CoolDownOver
          /\ ~HasToken(the_node)
          /\ Count(cmds', call("disable")) = 1
          /\ Count(cmds', call("restart")) = 0
          /\ ~enabled'[the_node]
          /\ the_node \notin DOMAIN buckets'
    /\ (Issued(call("restart_node")) /\ cur.ratelimit /\ CoolDownOver
            /\ ~HasToken(the_node)) => Issued(call("disable"))

C7_DisableOnExhaustion == [][C7_DisableStep]_vars

\* The node has just been disabled by a verify whose bucket was empty.
C7_Witness ==
    /\ pc = "call" /\ apc = "stats"
    /\ Count(cmds, call("disable")) = 1
    /\ ~enabled["n1"]
    /\ "n1" \notin DOMAIN buckets
-----------------------------------------------------------------------------
(* The queues of a node.                                                   *)

\* C8: whatever the declared set, the observed set and the direct queue of a
\* node, and whatever verify requests came before, cancel_queue is never
\* issued with the direct queue of the node as its argument.
C8_DirectQueueKept ==
    \A i \in DOMAIN cmds :
        cmds[i][1] = "cancel_queue" => cmds[i][2] # <<direct[the_node]>>

\* The node consumes from its direct queue, which is not declared, and from
\* another undeclared queue, which is being cancelled.
C8_Witness ==
    /\ pc = "call" /\ apc = "queue_cmd"
    /\ Last(cmds)[1] = "cancel_queue"
    /\ direct[the_node] \in consuming[the_node] \ declared[the_node]

\* A queue command is issued in this step.
QueueCommandIssued ==
    \E q \in Queues :
        Issued(<<"add_queue", <<q>>>>) \/ Issued(<<"cancel_queue", <<q>>>>)

\* C9: once _verify_node_queues has had a reply for a node and the node has
\* applied every add_queue and cancel_queue it was sent, the next
\* _verify_node_queues of the node issues no add_queue and no cancel_queue.
C9_SecondStep ==
    (pc = "call" /\ apc = "consuming" /\ settled[the_node])
        => ~QueueCommandIssued

C9_QueuesIdempotent == [][C9_SecondStep]_vars

\* The second _verify_node_queues of a node awaits its reply, the first one
\* having settled the node, which consumes from every declared queue and from
\* its undeclared direct queue.
C9_Witness ==
    /\ pc = "call" /\ apc = "consuming"
    /\ the_node = "n1" /\ settled["n1"]
    /\ direct["n1"] \in consuming["n1"] \ declared["n1"]
    /\ declared["n1"] # {}
    /\ declared["n1"] \subseteq consuming["n1"]
-----------------------------------------------------------------------------
(* Broker errors.                                                          *)

\* A connection error pauses the supervisor, a revival resumes it.
C11_ErrorStep ==
    /\ (~broker_down /\ broker_down') => paused'
    /\ (broker_down /\ ~broker_down') => ~paused'

-----------------------------------------------------------------------------
(* The periodic verify-all.                                                *)

\* The verify-all requests whose completion has not been sent.
OutstandingPeriodic == {id \in periodic : ~Signalled(id)}

\* _verify_all replaces self._last_update only when there was none or the
\* completion of the last one has been sent.
C12_TickStep ==
    last_update' # last_update =>
        /\ last_update = NoEvent \/ Signalled(last_update)
        /\ Last(queue') = [id |-> last_update', nodes |-> AllNodes,
                           action |-> "verify", ratelimit |-> TRUE]

\* C12: at most one periodic verify-all request is outstanding at any time;
\* a timer tick enqueues a verify of all nodes with ratelimit=True only if
\* there was no verify-all before or the completion of the last one has been
\* sent.
C12_OneVerifyAll ==
    /\ [](Cardinality(OutstandingPeriodic) <= 1)
    /\ [][C12_TickStep]_vars

\* A second verify-all is outstanding, the first one being complete.
C12_Witness ==
    /\ Cardinality(periodic) = 2
    /\ OutstandingPeriodic = {last_update}
    /\ pc = "call" /\ cur.id = last_update
-----------------------------------------------------------------------------
(* Restarts on behalf of verify requests and of restart requests.          *)

\* C13 as stated: every restart that a verify request initiates has passed
\* the cool-down check and has drawn a token from the bucket of the node.
C13_VerifyRestartStep ==
    (Issued(call("restart")) /\ cur.action = "verify")
        => CoolDownOver /\ HasToken(the_node)

C13_VerifyAlwaysRateLimited == [][C13_VerifyRestartStep]_vars

\* _do_verify_node enters _do_restart_node in this step.
C13_Enters == cur.action = "verify" /\ Issued(call("restart_node"))

\* A verify request restarts a node only in the step that enters
\* _do_restart_node.  With ratelimit=True that step restarts exactly when the
\* cool-down is over and the bucket yields a token, and disables the node
\* exactly when the cool-down is over and the bucket yields none; with
\* ratelimit=False it restarts whatever the cool-down and the bucket say,
\* disables nothing and evicts the bucket.
C13_RateLimitedStep ==
    /\ (Issued(call("restart")) /\ cur.action = "verify") => C13_Enters
    /\ C13_Enters =>
          IF cur.ratelimit
          THEN /\ Issued(call("restart")) <=> (CoolDownOver /\ HasToken(the_node))
               /\ Issued(call("disable")) <=> (CoolDownOver /\ ~HasToken(the_node))
          ELSE /\ Issued(call("restart"))
               /\ ~Issued(call("disable"))
               /\ the_node \notin DOMAIN buckets'

\* C13: a restart initiated by a verify request is rate-limited when the
\* request was made with ratelimit=True, as every periodic verify-all is: it
\* waits for the cool-down and draws a token.  A verify made with the default
\* ratelimit=False restarts the node whatever the cool-down and the bucket
\* say, and evicts the bucket.
C13_RateLimitedOnRequest ==
    /\ [](\A i \in DOMAIN queue : queue[i].id \in periodic => queue[i].ratelimit)
    /\ [][C13_RateLimitedStep]_vars

\* A verify made with ratelimit=False restarts a node during the cool-down,
\* less than a refill period after a periodic verify-all took the token.
C13_Witness ==
    /\ pc = "call" /\ apc = "restart"
    /\ cur.action = "verify" /\ ~cur.ratelimit
    /\ ~CoolDownOver
    /\ periodic # {}
    /\ rl_hist[the_node] # <<>>
    /\ now - Last(rl_hist[the_node]) < restart_period

\* _do_restart_node runs for the next node of a restart request.
C14_Enters == pc = "for" /\ cur.action = "restart" /\ idx <= Len(cur.nodes)

\* The step that starts the action for a node of a restart request issues the
\* restart, evicts the bucket and disables no node; no later step of the
\* action issues a restart or a disable.
C14_RestartStep ==
    /\ (C14_Enters /\ (pc' # pc \/ idx' # idx)) =>
          /\ Issued(call("restart"))
          /\ Count(cmds', call("restart")) = 1
          /\ Count(cmds', call("disable")) = 0
          /\ the_node \notin DOMAIN buckets'
          /\ \A n \in Nodes : enabled[n] => enabled'[n]
    /\ (pc = "call" /\ cur.action = "restart") =>
          /\ ~Issued(call("restart"))
          /\ ~Issued(call("disable"))
          /\ \A n \in Nodes : enabled[n] => enabled'[n]

\* C14: an explicit restart request issues exactly one restart command for
\* every node of the request, whatever the bucket of the node holds and
\* whether or not the broker cool-down is over, does not disable the node, and
\* evicts the bucket of the node.
C14_ExplicitRestartBypasses == [][C14_RestartStep]_vars

\* A restart request restarts the node during the cool-down, at the instant
\* at which a rate-limited restart took the token of its bucket.
C14_Witness ==
    /\ pc = "call" /\ apc = "restart" /\ cur.action = "restart"
    /\ broker_last_revived # Never
    /\ now - broker_last_revived[1] <= wait_after_broker_revived
    /\ rl_hist["n1"] # <<>>
    /\ Last(rl_hist["n1"]) = now
    /\ rl_epoch["n1"] = Len(rl_hist["n1"])
-----------------------------------------------------------------------------
(* A full queue.                                                           *)

\* The requests accepted and not yet signalled are in the queue or in the
\* hands of run().
Held(id) == id = cur.id \/ \E i \in DOMAIN queue : queue[i].id = id

\* A producer fails with Full only on a queue at capacity and then changes
\* nothing else; a put never takes the queue above its capacity.
C15_FullStep ==
    /\ raised' # raised =>
          /\ raised' = raised + 1
          /\ maxsize # Unbounded /\ Len(queue) >= maxsize
          /\ UNCHANGED <<queue, accepted, sent, last_update, periodic>>
          /\ UNCHANGED <<pc, cur, idx>>
    /\ (accepted' # accepted /\ maxsize # Unbounded) => Len(queue) < maxsize

\* C15: producers enqueue without blocking; on a queue at capacity the call
\* fails with Full, no request is added, no completion is left outstanding
\* and the queue and self._last_update are unchanged.
C15_FullQueueFails ==
    /\ [][C15_FullStep]_vars
    /\ [](maxsize # Unbounded => Len(queue) <= maxsize)
    /\ [](\A id \in 1..accepted : Signalled(id) \/ Held(id))

\* A producer has failed on the full queue of a supervisor whose last
\* verify-all is still waiting in it.
C15_Witness ==
    /\ raised >= 1
    /\ maxsize = QueueSize
    /\ Len(queue) = maxsize
    /\ last_update # NoEvent
    /\ Held(last_update) /\ cur.id # last_update
-----------------------------------------------------------------------------
(* The commands of _verify_node_queues and _verify_node_processes.         *)

\* What the claim expects for node n: an add_queue for every queue declared
\* and not observed, a cancel_queue for every queue observed, not declared
\* and not the direct queue.
ExpectedQueueCommands(n) ==
    {<<"add_queue", q>> : q \in declared[n] \ consuming[n]}
        \cup {<<"cancel_queue", q>> :
                 q \in (consuming[n] \ declared[n]) \ {direct[n]}}

\* The queue commands issued in this step, as <<command, queue>> pairs.
NewQueueCommands ==
    IF cmds' = <<>> THEN {}
    ELSE {c \in {"add_queue", "cancel_queue"} \X Queues :
             Issued(<<c[1], <<c[2]>>>>)}

\* The call in progress returns in this step without raising.
Replied == pc = "call" /\ cmds' # cmds /\ cmds' # <<call("raise")>>

\* On the reply of consuming_from the commands issued and still to issue are
\* the expected ones, or none at all for a nil reply; on the reply of a queue
\* command the next one is issued until none is left; each is issued once.
C16_QueueStep ==
    cmds' # cmds =>
        LET new == NewQueueCommands
        IN /\ (Replied /\ apc = "consuming") =>
                 \/ /\ new \cup todo' = ExpectedQueueCommands(the_node)
                    /\ new \cap todo' = {}
                    /\ Cardinality(new) =
                           IF ExpectedQueueCommands(the_node) = {} THEN 0 ELSE 1
                 \/ new = {} /\ pc' = "for"
           /\ (Replied /\ apc = "queue_cmd") =>
                 /\ new \cup todo' = todo
                 /\ new \cap todo' = {}
                 /\ Cardinality(new) = IF todo = {} THEN 0 ELSE 1
           /\ new # {} => apc \in {"consuming", "queue_cmd"}

\* C16: _verify_node_queues issues add_queue once for every queue declared
\* and not observed, cancel_queue once for every queue observed, not declared
\* and not the direct queue of the node, and no other queue command; on a nil
\* reply of consuming_from it issues none.
C16_QueueCommandsExact == [][C16_QueueStep]_vars

\* _verify_node_queues has issued its last command, after an add_queue and a
\* cancel_queue, for a node that consumes from its undeclared direct queue.
C16_Witness ==
    /\ pc = "call" /\ apc = "queue_cmd" /\ todo = {}
    /\ \E q \in Queues : Count(cmds, <<"add_queue", <<q>>>>) = 1
    /\ \E q \in Queues : Count(cmds, <<"cancel_queue", <<q>>>>) = 1
    /\ direct[the_node] \in consuming[the_node] \ declared[the_node]

\* The autoscale commands of a trace.
AutoscaleCalls(tr) == {i \in DOMAIN tr : tr[i][1] = "autoscale"}

\* The reply of stats() has an autoscaler entry that differs from the model.
StatsDiffer(s) ==
    /\ s.kind = "autoscaler"
    /\ s.max # max_concurrency \/ s.min # min_concurrency

\* On the reply of stats() one autoscale(max, min) is issued if the reply
\* differs from the model and none otherwise; no other step issues one.
C17_StatsStep ==
    /\ (Replied /\ apc = "stats") =>
          IF StatsDiffer(current')
          THEN /\ Cardinality(AutoscaleCalls(cmds')) = 1
               /\ Last(cmds') = <<"autoscale", <<max_concurrency, min_concurrency>>>>
          ELSE AutoscaleCalls(cmds') = {}
    /\ (pc = "call" /\ apc # "stats") =>
          Cardinality(AutoscaleCalls(cmds')) <= Cardinality(AutoscaleCalls(cmds))

\* C17: _verify_node_processes issues exactly one autoscale command, with the
\* declared values in the order (max_concurrency, min_concurrency), if and
\* only if the stats of the node hold an autoscaler entry whose max or min
\* differs from the declared value; it issues none when both match, when the
\* stats have no autoscaler key and when the reply is not a map.
C17_AutoscaleExact ==
    /\ [][C17_StatsStep]_vars
    /\ [](pc # "call" => AutoscaleCalls(cmds) = {})

\* The node reports max 8, min 2 against the declared 10 and 2, and
\* autoscale(10, 2) has been issued.
C17_Witness ==
    /\ pc = "call" /\ apc = "autoscale"
    /\ current = [kind |-> "autoscaler", max |-> max_concurrency - 2,
                  min |-> min_concurrency]
    /\ Last(cmds) = <<"autoscale", <<max_concurrency, min_concurrency>>>>
-----------------------------------------------------------------------------
(* Disabled and unsaved nodes.                                             *)

\* The node of the action in progress is disabled or has no primary key.
OffNode == ~enabled[the_node] \/ ~pk[the_node]

\* _do_verify_node takes its else branch exactly for such a node; there, on
\* the reply of ib(node.alive), one stop is issued if the reply is true and
\* the action returns with no command if it is not; after the stop the action
\* returns.
C18_OffStep ==
    /\ (pc = "for" /\ cur.action = "verify" /\ pc' = "call") =>
          (OffNode <=> apc' = "alive_off")
    /\ (Replied /\ apc = "alive_off") =>
          \/ cmds' = <<call("alive"), call("stop")>> /\ apc' = "stop"
          \/ cmds' = <<call("not_alive")>> /\ pc' = "for" /\ idx' = idx + 1
    /\ (pc = "call" /\ apc = "stop" /\ cmds' # cmds) => pc' = "for"

\* C18: for a node that is disabled or unsaved when _do_verify_node starts,
\* the supervisor issues exactly one stop if ib(node.alive) answers true and
\* none if it does not, and in both cases no restart, no stats or autoscale
\* and no consuming_from, add_queue or cancel_queue.
C18_OffNodeOnlyStopped ==
    /\ []((pc = "call" /\ cur.action = "verify" /\ apc \in {"alive_off", "stop"}) =>
             /\ cmds \in {<<call("alive")>>, <<call("alive"), call("stop")>>}
             /\ apc = (IF Len(cmds) = 1 THEN "alive_off" ELSE "stop"))
    /\ [][C18_OffStep]_vars

\* An unsaved node that is enabled is being stopped by a verify.
C18_Witness ==
    /\ pc = "call" /\ apc = "stop" /\ cur.action = "verify"
    /\ enabled[the_node] /\ ~pk[the_node]
    /\ cmds = <<call("alive"), call("stop")>>
-----------------------------------------------------------------------------
(* Exceptions and the pause, request by request.                           *)

\* The action of the node at hand raises in this step.
RaisedNow == cmds' # cmds /\ cmds' = <<call("raise")>>

\* A raise moves the for loop to the next node of the same request and sends
\* nothing; the loop invokes the action for every node it comes to; the
\* completion is sent only when the loop has passed the last node.
C19_RaiseStep ==
    /\ RaisedNow =>
          /\ pc = "call" /\ pc' = "for"
          /\ idx' = idx + 1
          /\ cur' = cur /\ sent' = sent /\ queue' = queue
    /\ (pc = "for" /\ idx <= Len(cur.nodes) /\ <<pc, idx>>' # <<pc, idx>>) =>
          \/ pc' = "call" /\ idx' = idx
                /\ inflight' = {<<cur.id, idx, cur.nodes[idx]>>}
          \/ pc' = "for" /\ idx' = idx + 1 /\ cmds' = <<call("paused")>>
    /\ sent' # sent =>
          /\ pc = "for" /\ idx = Len(cur.nodes) + 1
          /\ sent' = Append(sent, cur.id)

\* C19: when the action raises for a node of a request, the action is still
\* invoked for every later node of the request, in order, and the completion
\* of the request is still signalled.
C19_FailureDoesNotAbort ==
    /\ [][C19_RaiseStep]_vars
    /\ \A id \in Ids : (cmds = <<call("raise")>> /\ cur.id = id) ~> Signalled(id)

\* The action has raised for the first node of a request of two; the second
\* node is next and the completion has not been sent.
C19_Witness ==
    /\ pc = "for" /\ idx = 2 /\ Len(cur.nodes) = 2
    /\ cmds = <<call("raise")>>
    /\ ~Signalled(cur.id)

\* The for loop starts the action of a restart or shutdown request for its
\* next node while the supervisor is paused.
StartsPaused ==
    /\ pc = "for" /\ idx <= Len(cur.nodes) /\ paused
    /\ cur.action \in {"restart", "stop"}
    /\ <<pc, idx>>' # <<pc, idx>>

\* C20 as stated: an action of a restart or shutdown request that starts
\* while the supervisor is paused issues no restart and no stop.
C20_PausedSkipsStep ==
    StartsPaused => ~Issued(call("restart")) /\ ~Issued(call("stop"))

C20_PausedSkipsAll == [][C20_PausedSkipsStep]_vars

\* Paused or not, the action of a restart request issues the restart and the
\* action of a shutdown request issues the stop.
C20_PausedActsStep ==
    StartsPaused =>
        /\ pc' = "call"
        /\ cmds' = IF cur.action = "restart"
                   THEN <<call("restart_node"), call("restart")>>
                   ELSE <<call("stop")>>

\* C20: only verify tests the pause.  The action of a restart or shutdown
\* request that starts while the supervisor is paused issues its restart or
\* stop command as it does otherwise, and the request completes.
C20_PausedRestartAndStopAct ==
    /\ [][C20_PausedActsStep]_vars
    /\ \A id \in Ids :
          (paused /\ pc = "for" /\ cur.id = id /\ cur.action \in {"restart", "stop"})
              ~> Signalled(id)

\* A shutdown request is stopping a node of a paused supervisor.
C20_Witness ==
    /\ paused
    /\ pc = "call" /\ apc = "stop" /\ cur.action = "stop"
    /\ cmds = <<call("stop")>>

-----------------------------------------------------------------------------
(* _verify_restart_node: one restart, then the pings.                      *)

\* _verify_restart_node is waiting for node.restart or for a ping.
InVerifyRestart == pc = "call" /\ apc \in {"restart", "ping"}

Pinging == pc = "call" /\ apc = "ping"

\* While _verify_restart_node runs the restart was issued once; while it
\* pings, between one and `most` pings were made and none was answered true.
VerifyRestartState(most) ==
    /\ InVerifyRestart => Count(cmds, call("restart")) = 1
    /\ Pinging => ncalls \in 1..most /\ ~is_alive

\* A step taken during a ping leaves the ping pending, or makes the next ping,
\* or ends _verify_restart_node with no restart, no disable and the buckets
\* and the nodes' enabled flags as they were.
C21_PingStep ==
    Pinging =>
        \/ UNCHANGED <<pc, apc, ncalls, cmds, buckets>>
        \/ /\ pc' = "call" /\ apc' = "ping"
           /\ ncalls' = ncalls + 1
           /\ UNCHANGED <<cmds, buckets, enabled>>
        \/ /\ ~Pinging'
           /\ ~Issued(call("restart"))
           /\ ~Issued(call("disable"))
           /\ buckets' = buckets
           /\ \A n \in Nodes : enabled[n] => enabled'[n]

\* _verify_restart_node, once node.restart was issued, returns.
VerifyRestartEnds == InVerifyRestart ~> ~InVerifyRestart

\* _verify_restart_node restarts once, pings at most 30 times, stops at the
\* first true reply, does nothing more and returns.
C21_AtMost30Pings ==
    /\ [](VerifyRestartState(30))
    /\ [][C21_PingStep]_vars
    /\ VerifyRestartEnds

\* C21: _verify_restart_node returns when every call it makes does: it issues
\* node.restart once, then pings with the timeouts of
\* fxrangemax(0.1, 1, 0.4, 30), which are 31 (30 bounds the sum of the
\* timeouts, in seconds, not their number); it stops at the first ping that
\* is answered true, and when none is it issues no second restart, disables
\* no node and leaves the buckets alone.
C21_PingsBoundedBySchedule ==
    /\ [](Len(ping_timeouts) = 31 /\ VerifyRestartState(Len(ping_timeouts)))
    /\ [][C21_PingStep]_vars
    /\ VerifyRestartEnds

\* The last ping of the schedule is pending: thirty were answered false.
C21_Witness ==
    /\ Pinging
    /\ ncalls = Len(ping_timeouts)
    /\ ncalls > 30

-----------------------------------------------------------------------------
(* The supervisor of one node around the end of the cool-down: the clock   *)
(* stops at the last instant of the cool-down and at the first one after   *)
(* it, both before a bucket emptied at the revival has its token back.     *)
(* Rate-limited verify requests come throughout, restart and shutdown      *)
(* requests among the first ones.                                          *)

CoolSteps == {wait_after_broker_revived, wait_after_broker_revived + 1}

cool_tick == advance(CoolSteps)

CoolProducers ==
    /\ Len(sent) = accepted
    /\ \/ verify(<<"n1">>, TRUE, MaxCoolRequests)
       \/ restart(<<"n1">>, MaxRequests)
       \/ shutdown(<<"n1">>, MaxRequests)

CoolNext ==
    Reconciler \/ CoolProducers \/ cool_tick \/ errback \/ on_broker_revive

CoolSpec == TimedInit /\ [][CoolNext]_vars

-----------------------------------------------------------------------------
(* The supervisor of two nodes with the periodic verify-all, callers of    *)
(* verify with the default ratelimit=False, the clock around the end of    *)
(* the cool-down and a broker connection that is lost and revived.         *)

GateProducers ==
    /\ Len(sent) = accepted
    /\ \/ verify_all(MaxRequests)
       \/ verify(<<"n1">>, FALSE, MaxRequests)
       \/ restart(<<"n1">>, MaxRequests)
       \/ shutdown(<<"n1">>, MaxRequests)

GateNext ==
    Reconciler \/ GateProducers \/ cool_tick \/ errback \/ on_broker_revive

GateSpec == TimedInit /\ [][GateNext]_vars

-----------------------------------------------------------------------------
(* _do_restart_node with ratelimit=True while _can_restart() is false.     *)

\* This step enters _do_restart_node with ratelimit=True.
EntersRateLimited == cur.ratelimit /\ Issued(call("restart_node"))

\* A rate-limited _do_restart_node during the cool-down issues no restart and
\* no disable and leaves the nodes and every bucket as they are, but for the
\* full bucket the lookup makes for a node that has none.
C22_DeferStep ==
    (EntersRateLimited /\ ~CoolDownOver) =>
        /\ ~Issued(call("restart"))
        /\ ~Issued(call("disable"))
        /\ enabled' = enabled
        /\ rl_hist' = rl_hist
        /\ deferred'[the_node] = "deferred"
        /\ DOMAIN buckets' = DOMAIN buckets \cup {the_node}
        /\ \A n \in DOMAIN buckets : buckets'[n] = buckets[n]
        /\ the_node \notin DOMAIN buckets =>
              buckets'[the_node] = TokenBucket(now)

\* From the deferral to the next _do_restart_node of the node its bucket is
\* not touched.
C22_KeptStep ==
    \A n \in Nodes :
        (deferred[n] = "deferred" /\ deferred'[n] = "deferred") =>
            n \in DOMAIN buckets /\ buckets'[n] = buckets[n]

\* The first rate-limited _do_restart_node after the deferral and the
\* cool-down.
FirstAfterDeferral ==
    EntersRateLimited /\ CoolDownOver /\ deferred[the_node] = "deferred"

\* The first rate-limited restart after the cool-down always gets a token.
C22_GrantedStep ==
    FirstAfterDeferral => Issued(call("restart")) /\ ~Issued(call("disable"))

\* A deferred rate-limited restart takes no token, disables nothing, restarts
\* nothing, and the first rate-limited restart after the cool-down is granted.
C22_DeferredThenGranted == [][C22_DeferStep /\ C22_GrantedStep]_vars

\* The first rate-limited restart after the cool-down is decided by the bucket
\* as the deferral left it: restart with a token, disable without.
C22_AttemptStep ==
    FirstAfterDeferral =>
        /\ Issued(call("restart")) <=> HasToken(the_node)
        /\ Issued(call("disable")) <=> ~HasToken(the_node)

\* C22: _do_restart_node with ratelimit=True during the broker cool-down
\* takes no token from the bucket of the node, does not disable the node and
\* issues no restart; the bucket stays as it was (a full one is made for a
\* node without one) until the next _do_restart_node of the node.  The first
\* rate-limited restart after the cool-down is granted exactly when that
\* bucket, refilled for the time since its own timestamp, holds a token, and
\* disables the node when it does not.
C22_DeferralKeepsBucket ==
    [][C22_DeferStep /\ C22_KeptStep /\ C22_AttemptStep]_vars

\* The first rate-limited restart after a deferral and the cool-down found
\* the bucket short of a token and disabled the node.
C22_Witness ==
    /\ pc = "call"
    /\ deferred[the_node] = "attempted"
    /\ Count(cmds, call("disable")) = 1
    /\ ~enabled[the_node]
    /\ CoolDownOver /\ broker_last_revived # Never
====
